---- MODULE Spec2Model ----
(***************************************************************************)
(* A model of the metric aggregation pipeline of the dashboard:            *)
(*   - fetchLemonSqueezyData (lib/lemonsqueezy): four paginated fetches     *)
(*     followed by the construction of the daily billing ledger;            *)
(*   - getDashboardData (app/actions.ts): the merge of the billing ledger   *)
(*     with the analytics series;                                           *)
(*   - DashboardClient.aggregatedData (components/dashboard-client.tsx):    *)
(*     the week / month bucketing of the merged series;                     *)
(*   - fetchPostHogData (lib/posthog.ts): the trend and referring-domain    *)
(*     queries, the processing of their payloads and the mock series;       *)
(*   - OverviewChart.processedData (components/overview-chart.tsx): the     *)
(*     conversion rates of each record.                                     *)
(* Each part has its own specification; the variables of the other parts    *)
(* rest at their initial values.                                            *)
(*                                                                          *)
(* Representation.  A Date is its UTC timestamp counted in ticks, with      *)
(* TicksPerDay ticks to a day; a 'YYYY-MM-DD' key is the number of the day  *)
(* (day 0 is 2023-12-01).  Money is kept in hundredths: the code's          *)
(* `total / 100` of an integer number of cents is the same amount written   *)
(* with two decimals, so the ledger's revenue fields hold cents here.       *)
(***************************************************************************)
EXTENDS Integers, Sequences, FiniteSets, TLC

\* ------------------------------------------------------------------ bounds
MaxDay == 1          \* the provider's records and the range lie in days 0..MaxDay
TicksPerDay == 2     \* resolution of the time of day
MaxPage == 2         \* the page counter stops growing here (see NextPage)
MaxPageLen == 2      \* records on one page of a response
MaxRecords == 2      \* records one run collects over the four fetches

Missing == -1        \* meta?.page.lastPage when meta or lastPage is absent

Times == 0 .. ((MaxDay + 1) * TicksPerDay - 1)
Days == 0 .. MaxDay

\* toISOString().split('T')[0] of a Date, created_at.split('T')[0] of a
\* UTC timestamp string: the calendar day the instant falls on.
DayOf(t) == t \div TicksPerDay

\* ------------------------------------------------- the provider's records
OrderRecords ==
  [created : Times, status : {"paid", "pending"}, total : {0, 250}]

\* order_id 0 stands for an absent / null order_id.
InvoiceRecords ==
  { i \in [created : Times, status : {"paid", "pending"},
           billing_reason : {"initial", "renewal"}, order_id : {0, 7},
           total : {120}] :
      i.status = "pending" => (i.billing_reason = "renewal" /\ i.order_id = 0) }

CustomerRecords == [id : {1, 2}, mrr : {0, 900}]

SubscriptionRecords == [customer_id : {1, 2}]

LastPages == {Missing} \cup (0 .. MaxPage)

RECURSIVE SeqsUpTo(_, _)
SeqsUpTo(S, n) ==
  IF n = 0 THEN {<<>>}
  ELSE LET shorter == SeqsUpTo(S, n - 1)
       IN  shorter \cup { Append(s, x) : s \in {t \in shorter : Len(t) = n - 1}, x \in S }

Resources == {"orders", "invoices", "customers", "subs"}

VARIABLES
  apiKey,        \* process.env.LEMONSQUEEZY_API_KEY is set
  storeId,       \* process.env.LEMONSQUEEZY_STORE_ID is set
  startDate,     \* the range, as timestamps
  endDate,
  pc,            \* "idle", the resource whose loop runs, "done"
  page,          \* the loop's page counter
  inflight,      \* a list request awaits its response
  allOrders,     \* what each loop has collected
  allInvoices,
  allCustomers,
  allSubs,
  result,        \* the returned series
  outcome,       \* "pending" | "returned" | "rejected"
  requested,     \* the resources a request has been issued for (history)
  failed,        \* some request answered with an error or threw (history)
  paidServed,    \* per day, the paid in-range orders the provider returned (history)
  lastRequest,   \* <<resource, page>> of the latest list request, <<>> before the first (history)
  \* the billing provider, when its orders are modelled
  store,         \* the provider's orders, newest first
  changed,       \* an order has been created since the call began (history)
  \* fetchPostHogData
  phApiKey,      \* process.env.POSTHOG_API_KEY is set
  phProjectId,   \* process.env.POSTHOG_PROJECT_ID is set
  phPc,          \* "idle" | "trend" | "domain" | "process" | "done"
  trendStatus,   \* "none" | "ok" | "notok" | "threw": how the trend query went
  domainStatus,  \* the same for the referring-domain query
  trendData,     \* await trendResponse.json()
  domainData,    \* domainResponse.ok ? await domainResponse.json() : { result: [] }
  phResult,      \* the returned series
  phOutcome,     \* "pending" | "returned" | "rejected"
  mocked,        \* the series came from generateMockPostHogData (history)
  thrown,        \* an exception reached the catch block (history)
  \* OverviewChart
  customConfig,  \* { numerator, denominator }: the field names of the custom rate
  processedData, \* the memoised records with their rates
  \* getDashboardData
  lemonData,     \* what fetchLemonSqueezyData resolved to
  postHogData,   \* what fetchPostHogData resolved to
  mergedData,    \* the returned series
  mergePc,       \* "idle" | "awaited" (both fetches settled) | "merged"
  \* DashboardClient
  data,          \* the daily series on display
  granularity,   \* 'day' | 'week' | 'month'
  tzShift,       \* the browser's zone: local date of a UTC midnight, minus its UTC date
  aggregatedData, \* the memoised bucketing of data
  \* DashboardClient.loadData
  timeRange,     \* the selected range, '30d' at first
  viewMode,      \* 'simple' | 'advanced'
  selectedDate,  \* `date`, the selected DateRange: { from, to } as timestamps
  savedMode,     \* localStorage 'dashboard_view_mode', "none" when absent
  phase,         \* "constructed" | "restoring" | "mounted": the mount effects
  loading,
  cache,         \* localStorage 'dashboard_data_cache'
  pending,       \* the calls of getDashboardData awaiting their response, oldest first
  latest,        \* the latest invocation of loadData and how it ended (history)
  event          \* the latest step of loadData: invocation or settled call (history)

billingVars == <<apiKey, storeId, startDate, endDate, pc, page, inflight, allOrders,
                 allInvoices, allCustomers, allSubs, result, outcome, requested,
                 failed, paidServed, lastRequest>>
providerVars == <<store, changed>>
analyticsVars == <<phApiKey, phProjectId, phPc, trendStatus, domainStatus, trendData,
                   domainData, phResult, phOutcome, mocked, thrown>>
chartVars == <<customConfig, processedData>>
restVars == <<providerVars, analyticsVars, chartVars>>
mergeVars == <<lemonData, postHogData, mergedData, mergePc>>
loaderVars == <<timeRange, viewMode, selectedDate, savedMode, phase, loading, cache, pending,
                latest, event>>
clientVars == <<data, granularity, tzShift, aggregatedData, loaderVars>>

vars == <<billingVars, mergeVars, clientVars, restVars>>

\* ------------------------------------------------------ the ledger (pure)

\* const currentDate = new Date(startDate); while (currentDate <= endDate)
\* { dailyData[key(currentDate)] = zeros; currentDate.setDate(getDate() + 1) }
RECURSIVE DailyKeys(_, _)
DailyKeys(currentDate, end) ==
  IF currentDate <= end
  THEN {DayOf(currentDate)} \cup DailyKeys(currentDate + TicksPerDay, end)
  ELSE {}

ZeroDaily(start, end) ==
  [d \in DailyKeys(start, end) |-> [revenue |-> 0, renewalRevenue |-> 0, purchases |-> 0]]

ProcessOrder(dailyData, order) ==
  IF order.status # "paid" THEN dailyData
  ELSE LET date == DayOf(order.created)
       IN  IF date \in DOMAIN dailyData
           THEN [dailyData EXCEPT ![date].revenue = @ + order.total,
                                  ![date].purchases = @ + 1]
           ELSE dailyData

\* Mutant: the order_id half of the double-counting check is forgotten.
isInitial_ReasonOnly(invoice) ==
  invoice.billing_reason = "initial"

isInitial(invoice) ==
  invoice.billing_reason = "initial" \/ invoice.order_id # 0

\* Mutant: a renewal is booked as renewalRevenue but not as revenue.
ProcessInvoice_RenewalOnly(dailyData, invoice) ==
  IF invoice.status # "paid" \/ invoice.billing_reason = "initial" \/ invoice.order_id # 0
  THEN dailyData
  ELSE LET date == DayOf(invoice.created)
       IN  IF date \in DOMAIN dailyData
           THEN [dailyData EXCEPT ![date].renewalRevenue = @ + invoice.total]
           ELSE dailyData

ProcessInvoice(dailyData, invoice) ==
  IF invoice.status # "paid" THEN dailyData
  ELSE IF ~isInitial(invoice)
       THEN LET date == DayOf(invoice.created)
            IN  IF date \in DOMAIN dailyData
                THEN [dailyData EXCEPT ![date].revenue = @ + invoice.total,
                                       ![date].renewalRevenue = @ + invoice.total]
                ELSE dailyData
       ELSE dailyData

RECURSIVE ProcessOrders(_, _)
ProcessOrders(dailyData, orders) ==
  IF orders = <<>> THEN dailyData
  ELSE ProcessOrders(ProcessOrder(dailyData, Head(orders)), Tail(orders))

RECURSIVE ProcessInvoices(_, _)
ProcessInvoices(dailyData, invoices) ==
  IF invoices = <<>> THEN dailyData
  ELSE ProcessInvoices(ProcessInvoice(dailyData, Head(invoices)), Tail(invoices))

activeCustomerIds(activeSubs) ==
  { activeSubs[i].customer_id : i \in DOMAIN activeSubs }

\* Mutant: every customer's mrr is summed, active or not.
RECURSIVE currentMRR_AllCustomers(_, _)
currentMRR_AllCustomers(customers, activeSubs) ==
  IF customers = <<>> THEN 0
  ELSE Head(customers).mrr + currentMRR_AllCustomers(Tail(customers), activeSubs)

RECURSIVE currentMRR(_, _)
currentMRR(customers, activeSubs) ==
  IF customers = <<>> THEN 0
  ELSE (IF Head(customers).id \in activeCustomerIds(activeSubs)
        THEN Head(customers).mrr ELSE 0)
       + currentMRR(Tail(customers), activeSubs)

correctActiveCustomersCount(activeSubs) == Len(activeSubs)

\* .sort((a, b) => a.date.localeCompare(b.date)) of the entries of dailyData
RECURSIVE SortByDate(_)
SortByDate(keys) ==
  IF keys = {} THEN <<>>
  ELSE LET first == CHOOSE d \in keys : \A e \in keys : d <= e
       IN  <<first>> \o SortByDate(keys \ {first})

\* Mutant: the snapshot values are written to the last day only.
BuildLedger_SnapshotOnLastDay(orders, invoices, customers, activeSubs, start, end) ==
  LET dailyData == ProcessInvoices(ProcessOrders(ZeroDaily(start, end), orders), invoices)
      dates == SortByDate(DOMAIN dailyData)
      last(i) == i = Len(dates)
  IN  [i \in DOMAIN dates |->
         [date |-> dates[i],
          revenue |-> dailyData[dates[i]].revenue,
          renewalRevenue |-> dailyData[dates[i]].renewalRevenue,
          mrr |-> IF last(i) THEN currentMRR(customers, activeSubs) ELSE 0,
          activeCustomers |-> IF last(i) THEN correctActiveCustomersCount(activeSubs) ELSE 0,
          churnRate |-> 0,
          purchases |-> dailyData[dates[i]].purchases]]

BuildLedger(orders, invoices, customers, activeSubs, start, end) ==
  LET dailyData == ProcessInvoices(ProcessOrders(ZeroDaily(start, end), orders), invoices)
      dates == SortByDate(DOMAIN dailyData)
  IN  [i \in DOMAIN dates |->
         [date |-> dates[i],
          revenue |-> dailyData[dates[i]].revenue,
          renewalRevenue |-> dailyData[dates[i]].renewalRevenue,
          mrr |-> currentMRR(customers, activeSubs),
          activeCustomers |-> correctActiveCustomersCount(activeSubs),
          churnRate |-> 0,
          purchases |-> dailyData[dates[i]].purchases]]

\* --------------------------------------------- fetchLemonSqueezyData (steps)

\* No call of fetchLemonSqueezyData is under way.
BillingIdle ==
  /\ apiKey = TRUE
  /\ storeId = TRUE
  /\ startDate = 0
  /\ endDate = 0
  /\ pc = "idle"
  /\ page = 1
  /\ inflight = FALSE
  /\ allOrders = <<>>
  /\ allInvoices = <<>>
  /\ allCustomers = <<>>
  /\ allSubs = <<>>
  /\ result = <<>>
  /\ outcome = "pending"
  /\ requested = {}
  /\ failed = FALSE
  /\ paidServed = [d \in Days |-> [n |-> 0, cents |-> 0]]
  /\ lastRequest = <<>>

\* No call of getDashboardData is under way.
MergeIdle ==
  /\ lemonData = <<>>
  /\ postHogData = <<>>
  /\ mergedData = <<>>
  /\ mergePc = "idle"

\* new Date() during the session: a time of day after midnight of the last
\* modelled day.
Now == MaxDay * TicksPerDay + 1

\* toISOString() of a Date, and toISOString().split('T')[0].
Instant(t) == [kind |-> "instant", at |-> t]

DayString(t) == [kind |-> "day", at |-> DayOf(t)]

\* useState<DateRange>({ from: now - 30 days, to: now })
DefaultDate == [from |-> Now - 30 * TicksPerDay, to |-> Now]

NoParams ==
  [timeRange |-> "", viewMode |-> "", dateFrom |-> Instant(0), dateTo |-> Instant(0)]

\* localStorage.getItem('dashboard_data_cache') === null
NoCache == [state |-> "none", params |-> NoParams, data |-> <<>>]

NoRequest == [params |-> NoParams, range |-> [from |-> 0, to |-> 0], newest |-> FALSE]

\* The loader as constructed: the useState initial values, no effect run yet.
LoaderIdle ==
  /\ timeRange = "30d"
  /\ viewMode = "simple"
  /\ selectedDate = DefaultDate
  /\ savedMode = "none"
  /\ phase = "constructed"
  /\ loading = TRUE
  /\ cache = NoCache
  /\ pending = <<>>
  /\ latest = [params |-> NoParams, end |-> "none", data |-> <<>>]
  /\ event = [kind |-> "none", force |-> FALSE, params |-> NoParams, req |-> NoRequest]

\* The client as mounted: useState([]) and useState('day').
ClientIdle ==
  /\ data = <<>>
  /\ granularity = "day"
  /\ tzShift = 0
  /\ aggregatedData = <<>>
  /\ LoaderIdle

\* The provider's orders are not modelled: each response is arbitrary.
ProviderIdle ==
  /\ store = <<>>
  /\ changed = FALSE

\* No call of fetchPostHogData is under way.
AnalyticsIdle ==
  /\ phApiKey = TRUE
  /\ phProjectId = TRUE
  /\ phPc = "idle"
  /\ trendStatus = "none"
  /\ domainStatus = "none"
  /\ trendData = <<>>
  /\ domainData = <<>>
  /\ phResult = <<>>
  /\ phOutcome = "pending"
  /\ mocked = FALSE
  /\ thrown = FALSE

\* The chart as mounted: useState({ numerator: 'purchases', denominator: 'visitors' }).
ChartIdle ==
  /\ customConfig = [numerator |-> "purchases", denominator |-> "visitors"]
  /\ processedData = <<>>

RestIdle == ProviderIdle /\ AnalyticsIdle /\ ChartIdle

Init ==
  /\ MergeIdle
  /\ ClientIdle
  /\ RestIdle
  /\ apiKey \in BOOLEAN
  /\ storeId \in BOOLEAN
  /\ startDate \in Times
  /\ endDate \in Times
  /\ startDate <= endDate
  /\ pc = "idle"
  /\ page = 1
  /\ inflight = FALSE
  /\ allOrders = <<>>
  /\ allInvoices = <<>>
  /\ allCustomers = <<>>
  /\ allSubs = <<>>
  /\ result = <<>>
  /\ outcome = "pending"
  /\ requested = {}
  /\ failed = FALSE
  /\ paidServed = [d \in Days |-> [n |-> 0, cents |-> 0]]
  /\ lastRequest = <<>>

\* The entry of fetchLemonSqueezyData: the credential check, then the orders loop.
Call ==
  /\ pc = "idle"
  /\ IF ~apiKey
     THEN /\ pc' = "done"
          /\ outcome' = "returned"
          /\ result' = <<>>
     ELSE /\ pc' = "orders"
          /\ UNCHANGED <<outcome, result>>
  /\ UNCHANGED <<mergeVars, clientVars, restVars, lastRequest, apiKey, storeId, startDate, endDate, page, inflight, allOrders,
                 allInvoices, allCustomers, allSubs, requested, failed, paidServed>>

\* await listOrders / listSubscriptionInvoices / listCustomers / listSubscriptions
\* ({ filter, page: { number: page, size: 100 } }): the request leaves.
Request ==
  /\ pc \in Resources
  /\ ~inflight
  /\ inflight' = TRUE
  /\ requested' = requested \cup {pc}
  /\ lastRequest' = <<pc, page>>
  /\ UNCHANGED <<mergeVars, clientVars, restVars, apiKey, storeId, startDate, endDate, pc, page, allOrders,
                 allInvoices, allCustomers, allSubs, result, outcome, failed,
                 paidServed>>

\* page++ on a JavaScript number: the counter stops growing at 2^53, where
\* adding one no longer changes it; MaxPage stands for that value.
NextPage(p) == IF p < MaxPage THEN p + 1 ELSE p

\* meta?.page.lastPage && ... : absent and 0 are both falsy.
Truthy(lastPage) == lastPage # Missing /\ lastPage # 0

\* createdAt >= startDate && createdAt <= endDate
InRange(rec) == rec.created >= startDate /\ rec.created <= endDate

\* Mutant: the last item is compared with endDate.
LastItemTooOld_EndDate(recs) == recs # <<>> /\ recs[Len(recs)].created < endDate

\* lastItem && new Date(lastItem.attributes.created_at) < startDate
LastItemTooOld(recs) == recs # <<>> /\ recs[Len(recs)].created < startDate

\* The stop conditions of the orders and invoices loops ...
StopsDated(recs, lastPage) ==
  \/ LastItemTooOld(recs)
  \/ Truthy(lastPage) /\ page >= lastPage

\* ... and of the customers and subscriptions loops.
StopsPlain(lastPage) == Truthy(lastPage) /\ page >= lastPage

Collected == Len(allOrders) + Len(allInvoices) + Len(allCustomers) + Len(allSubs)

\* Mutant: the catch block returns the ledger of what was fetched so far.
Catch_Partial ==
  /\ pc' = "done"
  /\ outcome' = "returned"
  /\ result' = BuildLedger(allOrders, allInvoices, allCustomers, allSubs, startDate, endDate)

\* The catch block: log, return [].
Catch ==
  /\ pc' = "done"
  /\ outcome' = "returned"
  /\ result' = <<>>

\* if (error) throw new Error(error.message), or the SDK call itself throws:
\* control leaves the loop for the catch block.
RespondError ==
  /\ pc \in Resources
  /\ inflight
  /\ inflight' = FALSE
  /\ failed' = TRUE
  /\ Catch
  /\ UNCHANGED <<mergeVars, clientVars, restVars, lastRequest, apiKey, storeId, startDate, endDate, page, allOrders, allInvoices,
                 allCustomers, allSubs, requested, paidServed>>

\* Mutant: the next loop goes on from the page the last one stopped at.
AfterLoop_KeepPage(resource, o, i, c, s) ==
  /\ inflight' = FALSE
  /\ page' = page
  /\ IF resource = "subs"
     THEN /\ pc' = "done"
          /\ outcome' = "returned"
          /\ result' = BuildLedger(o, i, c, s, startDate, endDate)
     ELSE /\ pc' = CASE resource = "orders"    -> "invoices"
                     [] resource = "invoices"  -> "customers"
                     [] resource = "customers" -> "subs"
          /\ UNCHANGED <<outcome, result>>

\* What follows the loop of `resource` once it has ended with the lists o, i, c, s:
\* the next loop starts at page 1; after the subscriptions loop the ledger is
\* built and returned.
AfterLoop(resource, o, i, c, s) ==
  /\ inflight' = FALSE
  /\ page' = 1
  /\ IF resource = "subs"
     THEN /\ pc' = "done"
          /\ outcome' = "returned"
          /\ result' = BuildLedger(o, i, c, s, startDate, endDate)
     ELSE /\ pc' = CASE resource = "orders"    -> "invoices"
                     [] resource = "invoices"  -> "customers"
                     [] resource = "customers" -> "subs"
          /\ UNCHANGED <<outcome, result>>

\* if (!data) break
RespondNoData ==
  /\ pc \in Resources
  /\ inflight
  /\ AfterLoop(pc, allOrders, allInvoices, allCustomers, allSubs)
  /\ UNCHANGED <<mergeVars, clientVars, restVars, lastRequest, apiKey, storeId, startDate, endDate, allOrders, allInvoices,
                 allCustomers, allSubs, requested, failed, paidServed>>

\* The loop goes round: page++ and the next request.
Continue ==
  /\ inflight' = FALSE
  /\ page' = NextPage(page)
  /\ UNCHANGED <<pc, outcome, result>>

\* History: the paid orders of the page that lie inside [startDate, endDate].
ServedAfter(recs) ==
  [d \in Days |->
     LET hit == { k \in DOMAIN recs : /\ recs[k].status = "paid"
                                      /\ startDate <= recs[k].created
                                      /\ recs[k].created <= endDate
                                      /\ DayOf(recs[k].created) = d }
         RECURSIVE Sum(_)
         Sum(K) == IF K = {} THEN 0
                   ELSE LET k == CHOOSE x \in K : TRUE
                        IN  recs[k].total + Sum(K \ {k})
     IN  [n |-> paidServed[d].n + Cardinality(hit),
          cents |-> paidServed[d].cents + Sum(hit)]]

\* One page of orders: keep the orders in range, then decide whether to go on.
OrdersResponse(recs, lastPage) ==
  LET kept == SelectSeq(recs, InRange)
  IN  /\ allOrders' = allOrders \o kept
      /\ paidServed' = ServedAfter(recs)
      /\ IF StopsDated(recs, lastPage)
         THEN AfterLoop("orders", allOrders', allInvoices, allCustomers, allSubs)
         ELSE Continue

\* The response to a listOrders request, whatever the provider sends.
FetchOrdersPage ==
  /\ pc = "orders"
  /\ inflight
  /\ \E recs \in SeqsUpTo(OrderRecords, MaxPageLen), lastPage \in LastPages :
       /\ Collected + Len(SelectSeq(recs, InRange)) <= MaxRecords
       /\ OrdersResponse(recs, lastPage)
  /\ UNCHANGED <<mergeVars, clientVars, restVars, lastRequest, apiKey, storeId, startDate, endDate, allInvoices, allCustomers,
                 allSubs, requested, failed>>

FetchInvoicesPage ==
  /\ pc = "invoices"
  /\ inflight
  /\ \E recs \in SeqsUpTo(InvoiceRecords, MaxPageLen), lastPage \in LastPages :
       LET kept == SelectSeq(recs, InRange)
       IN  /\ Collected + Len(kept) <= MaxRecords
           /\ allInvoices' = allInvoices \o kept
           /\ IF StopsDated(recs, lastPage)
              THEN AfterLoop("invoices", allOrders, allInvoices', allCustomers, allSubs)
              ELSE Continue
  /\ UNCHANGED <<mergeVars, clientVars, restVars, lastRequest, apiKey, storeId, startDate, endDate, allOrders, allCustomers,
                 allSubs, requested, failed, paidServed>>

FetchCustomersPage ==
  /\ pc = "customers"
  /\ inflight
  /\ \E recs \in SeqsUpTo(CustomerRecords, MaxPageLen), lastPage \in LastPages :
       /\ Collected + Len(recs) <= MaxRecords
       /\ allCustomers' = allCustomers \o recs
       /\ IF StopsPlain(lastPage)
          THEN AfterLoop("customers", allOrders, allInvoices, allCustomers', allSubs)
          ELSE Continue
  /\ UNCHANGED <<mergeVars, clientVars, restVars, lastRequest, apiKey, storeId, startDate, endDate, allOrders, allInvoices,
                 allSubs, requested, failed, paidServed>>

FetchSubsPage ==
  /\ pc = "subs"
  /\ inflight
  /\ \E recs \in SeqsUpTo(SubscriptionRecords, MaxPageLen), lastPage \in LastPages :
       /\ Collected + Len(recs) <= MaxRecords
       /\ allSubs' = allSubs \o recs
       /\ IF StopsPlain(lastPage)
          THEN AfterLoop("subs", allOrders, allInvoices, allCustomers, allSubs')
          ELSE Continue
  /\ UNCHANGED <<mergeVars, clientVars, restVars, lastRequest, apiKey, storeId, startDate, endDate, allOrders, allInvoices,
                 allCustomers, requested, failed, paidServed>>

Next ==
  \/ Call
  \/ Request
  \/ RespondError
  \/ RespondNoData
  \/ FetchOrdersPage
  \/ FetchInvoicesPage
  \/ FetchCustomersPage
  \/ FetchSubsPage

Spec == Init /\ [][Next]_vars

\* ------------------------------------- the billing provider's list of orders

PageSize == 2        \* page: { size } of a list request (100 in the code)
MaxStore == 3        \* orders the provider holds when the call begins

\* The provider's orders carry an id; listOrders answers newest first.
RECURSIVE NewestFirst(_)
NewestFirst(n) ==
  IF n = 0 THEN {<<>>}
  ELSE LET shorter == NewestFirst(n - 1)
       IN  shorter \cup
           { Append(x[1], [id |-> n, created |-> x[2], status |-> x[3], total |-> 250]) :
               x \in { y \in {u \in shorter : Len(u) = n - 1} \X Times \X {"paid", "pending"} :
                         y[1] = <<>> \/ y[1][Len(y[1])].created >= y[2] } }

Stores == NewestFirst(MaxStore)

\* page: { number: p, size: PageSize } of the list st
PageOf(st, p) ==
  SubSeq(st, (p - 1) * PageSize + 1, IF p * PageSize < Len(st) THEN p * PageSize ELSE Len(st))

\* meta.page.lastPage as a paginator reports it: the number of pages, at least 1
LastPageOf(st) ==
  IF Len(st) = 0 THEN 1 ELSE (Len(st) + PageSize - 1) \div PageSize

\* fetchLemonSqueezyData called against a provider holding `store`.
InitProvider ==
  /\ MergeIdle
  /\ ClientIdle
  /\ AnalyticsIdle
  /\ ChartIdle
  /\ store \in Stores
  /\ changed = FALSE
  /\ apiKey = TRUE
  /\ storeId = TRUE
  /\ startDate \in Times
  /\ endDate \in Times
  /\ startDate <= endDate
  /\ pc = "idle"
  /\ page = 1
  /\ inflight = FALSE
  /\ allOrders = <<>>
  /\ allInvoices = <<>>
  /\ allCustomers = <<>>
  /\ allSubs = <<>>
  /\ result = <<>>
  /\ outcome = "pending"
  /\ requested = {}
  /\ failed = FALSE
  /\ paidServed = [d \in Days |-> [n |-> 0, cents |-> 0]]
  /\ lastRequest = <<>>

\* The response to a listOrders request: the requested page of the provider's
\* list as it stands.
ServeOrdersPage ==
  /\ pc = "orders"
  /\ inflight
  /\ OrdersResponse(PageOf(store, page), LastPageOf(store))
  /\ UNCHANGED <<mergeVars, clientVars, restVars, lastRequest, apiKey, storeId, startDate,
                 endDate, allInvoices, allCustomers, allSubs, requested, failed>>

\* A customer places an order while the orders are being fetched: it is the
\* newest, and every older order moves one place down the list.
InsertOrder ==
  /\ pc = "orders"
  /\ ~changed
  /\ Len(store) < MaxPage * PageSize
  /\ \E created \in { t \in Times : store = <<>> \/ t >= store[1].created },
        status \in {"paid", "pending"} :
       store' = <<[id |-> Len(store) + 1, created |-> created, status |-> status,
                   total |-> 250]>> \o store
  /\ changed' = TRUE
  /\ UNCHANGED <<billingVars, mergeVars, clientVars, analyticsVars, chartVars>>

\* The invoices, customers and subscriptions of the provider are not modelled:
\* each of their loops ends at its first response.
EndOtherLoop ==
  /\ pc # "orders"
  /\ RespondNoData

NextProvider ==
  \/ Call
  \/ Request
  \/ ServeOrdersPage
  \/ InsertOrder
  \/ EndOtherLoop

SpecProvider == InitProvider /\ [][NextProvider]_vars

\* -------------------------------------- the ledger of given collected lists

MaxCustomers == 2    \* customers collected
MaxSubs == 3         \* active subscriptions collected

\* fetchLemonSqueezyData with its four lists collected and the last
\* listSubscriptions request in flight; what remains is the end of the loop and
\* the construction of the ledger.
InitLedger ==
  /\ MergeIdle
  /\ ClientIdle
  /\ RestIdle
  /\ apiKey = TRUE
  /\ storeId \in BOOLEAN
  /\ startDate \in Times
  /\ endDate \in Times
  /\ startDate <= endDate
  /\ pc = "subs"
  /\ page = 1
  /\ inflight = TRUE
  /\ allOrders \in SeqsUpTo({ o \in OrderRecords : o.status = "paid" /\ o.total = 250 /\ InRange(o) }, 1)
  /\ allInvoices = <<>>
  /\ allCustomers \in SeqsUpTo(CustomerRecords, MaxCustomers)
  /\ allSubs \in SeqsUpTo(SubscriptionRecords, MaxSubs)
  /\ result = <<>>
  /\ outcome = "pending"
  /\ requested = Resources
  /\ failed = FALSE
  /\ paidServed = [d \in Days |-> [n |-> 0, cents |-> 0]]
  /\ lastRequest = <<"subs", 1>>

NextLedger == RespondNoData

SpecLedger == InitLedger /\ [][NextLedger]_vars

\* ----------------------------------------------------- getDashboardData

NoDomains == [k \in {} |-> 0]

\* What fetchPostHogData can resolve to: one record per date, ascending by date;
\* its dates need not be the ledger's.
PostHogRecords ==
  [date : 0 .. (MaxDay + 1), visitors : {0, 40}, pricingViews : {7}, checkouts : {3},
   purchases : {0, 5}, referringDomains : {NoDomains, "google.com" :> 3}]

RECURSIVE AscendingSeries(_, _)
AscendingSeries(records, n) ==
  IF n = 0 THEN {<<>>}
  ELSE LET shorter == AscendingSeries(records, n - 1)
       IN  shorter \cup
           { Append(x[1], x[2]) :
               x \in { y \in {u \in shorter : Len(u) = n - 1} \X records :
                         y[1] = <<>> \/ y[1][Len(y[1])].date < y[2].date } }

PostHogSeries == AscendingSeries(PostHogRecords, MaxDay + 2)

\* What fetchLemonSqueezyData can resolve to: [] or a ledger it builds.
Ledgers ==
  {<<>>} \cup
  { BuildLedger(x[1], <<>>, <<>>, <<>>, x[2], x[3]) :
      x \in { y \in SeqsUpTo(OrderRecords, 1) \X Times \X Times : y[2] <= y[3] } }

\* { ...a, ...b }: b's fields over a's.
Spread(a, b) ==
  [k \in DOMAIN a \cup DOMAIN b |-> IF k \in DOMAIN b THEN b[k] ELSE a[k]]

\* Mutant: the analytics record is taken by position, not by date.
postHogItem_First(series, lemonItem) ==
  IF series # <<>> THEN series[1]
  ELSE [visitors |-> 0, pricingViews |-> 0, checkouts |-> 0, purchases |-> 0,
        referringDomains |-> NoDomains, date |-> lemonItem.date]

\* postHogData.find(p => p.date === lemonItem.date) || { zeros, date: lemonItem.date }
postHogItem(series, lemonItem) ==
  IF \E j \in DOMAIN series : series[j].date = lemonItem.date
  THEN series[CHOOSE j \in DOMAIN series :
                /\ series[j].date = lemonItem.date
                /\ \A h \in 1 .. (j - 1) : series[h].date # lemonItem.date]
  ELSE [visitors |-> 0, pricingViews |-> 0, checkouts |-> 0, purchases |-> 0,
        referringDomains |-> NoDomains, date |-> lemonItem.date]

\* Mutant: the purchases override is left out.
mergedItem_NoOverride(series, lemonItem) ==
  Spread(lemonItem, postHogItem(series, lemonItem))

\* { ...lemonItem, ...postHogItem, purchases: lemonItem.purchases }
mergedItem(series, lemonItem) ==
  Spread(Spread(lemonItem, postHogItem(series, lemonItem)),
         [purchases |-> lemonItem.purchases])

\* Mutant: an inner join, the ledger days without an analytics record are dropped.
mergeByDate_Inner(ledger, series) ==
  LET both == SelectSeq(ledger, LAMBDA l : \E j \in DOMAIN series : series[j].date = l.date)
  IN  [i \in DOMAIN both |-> mergedItem(series, both[i])]

\* lemonData.map(lemonItem => ...)
mergeByDate(ledger, series) ==
  [i \in DOMAIN ledger |-> mergedItem(series, ledger[i])]

\* Promise.all has resolved: the two series are at hand.
InitMerge ==
  /\ BillingIdle
  /\ ClientIdle
  /\ RestIdle
  /\ lemonData \in Ledgers
  /\ postHogData \in PostHogSeries
  /\ mergedData = <<>>
  /\ mergePc = "awaited"

\* The rest of getDashboardData: merge by date and return.
MergeData ==
  /\ mergePc = "awaited"
  /\ mergedData' = mergeByDate(lemonData, postHogData)
  /\ mergePc' = "merged"
  /\ UNCHANGED <<billingVars, clientVars, restVars, lemonData, postHogData>>

NextMerge == MergeData

SpecMerge == InitMerge /\ [][NextMerge]_vars

\* ------------------------------------------- DashboardClient.aggregatedData

MaxSeries == 3       \* days in the daily series on display

\* new Date('YYYY-MM-DD') is that day's UTC midnight; getDay(), getDate(),
\* getMonth() and setDate() read and write the browser's local date, which at a
\* UTC midnight is the same day east of Greenwich and the day before west of it.
LocalDate(d) == d + tzShift

\* toISOString().split('T')[0] of the Date whose local date is l, the local time
\* of day being that of a UTC midnight.
IsoDate(l) == l - tzShift

\* Date.prototype.getDay, 0 = Sunday: 2023-12-01 (day 0) is a Friday.
getDay(l) == (l + 5) % 7

\* The first days of the months 2023-11 .. 2024-03, as day numbers.
MonthStarts == {-30, 0, 31, 62, 91}

\* `${getFullYear()}-${getMonth() + 1}-01` of the local date l.
MonthStartOf(l) ==
  CHOOSE m \in MonthStarts : m <= l /\ \A n \in MonthStarts : n <= l => n <= m

bucketKey(item, gran) ==
  LET date == LocalDate(item.date)
  IN  IF gran = "week"
      THEN LET day == getDay(date)
               diff == date - day + (IF day = 0 THEN -6 ELSE 1)
           IN  IsoDate(diff)
      ELSE MonthStartOf(date)

\* currentBucket.referringDomains[domain] = (... [domain] || 0) + count
mergeDomains(mine, theirs) ==
  [k \in DOMAIN mine \cup DOMAIN theirs |->
     (IF k \in DOMAIN mine THEN mine[k] ELSE 0) + (IF k \in DOMAIN theirs THEN theirs[k] ELSE 0)]

\* Mutant: revenue is treated as a point-in-time value, like mrr.
accumulate_RevenueLast(currentBucket, item) ==
  [currentBucket EXCEPT
     !.visitors = @ + item.visitors,
     !.pricingViews = @ + item.pricingViews,
     !.checkouts = @ + item.checkouts,
     !.purchases = @ + item.purchases,
     !.revenue = item.revenue,
     !.renewalRevenue = @ + item.renewalRevenue,
     !.mrr = item.mrr,
     !.activeCustomers = item.activeCustomers,
     !.churnRate = item.churnRate,
     !.referringDomains = mergeDomains(@, item.referringDomains)]

\* Mutant: the bucket keeps the snapshot values of its first day.
accumulate_FirstSnapshot(currentBucket, item) ==
  [currentBucket EXCEPT
     !.visitors = @ + item.visitors,
     !.pricingViews = @ + item.pricingViews,
     !.checkouts = @ + item.checkouts,
     !.purchases = @ + item.purchases,
     !.revenue = @ + item.revenue,
     !.renewalRevenue = @ + item.renewalRevenue,
     !.referringDomains = mergeDomains(@, item.referringDomains)]

\* The else branch: the item joins the current bucket.
accumulate(currentBucket, item) ==
  [currentBucket EXCEPT
     !.visitors = @ + item.visitors,
     !.pricingViews = @ + item.pricingViews,
     !.checkouts = @ + item.checkouts,
     !.purchases = @ + item.purchases,
     !.revenue = @ + item.revenue,
     !.renewalRevenue = @ + item.renewalRevenue,
     !.mrr = item.mrr,
     !.activeCustomers = item.activeCustomers,
     !.churnRate = item.churnRate,
     !.referringDomains = mergeDomains(@, item.referringDomains)]

\* Mutant: the new bucket takes the item's referringDomains object itself.
seedDomains_Shared(item) == [own |-> FALSE, map |-> item.referringDomains]

\* referringDomains: { ...item.referringDomains }: the new bucket's map is an
\* object of its own with the item's entries.
seedDomains(item) == [own |-> TRUE, map |-> item.referringDomains]

\* currentBucket = { ...item, date: bucketKey, referringDomains: ... }
seedBucket(item, key) ==
  [item EXCEPT !.date = key, !.referringDomains = seedDomains(item).map]

\* data.forEach(...) and the final push; currentBucket is <<>> for null and
\* <<bucket>> otherwise.
RECURSIVE forEachItem(_, _, _, _)
forEachItem(items, gran, aggregated, currentBucket) ==
  IF items = <<>> THEN aggregated \o currentBucket
  ELSE LET item == Head(items)
           key == bucketKey(item, gran)
       IN  IF currentBucket = <<>> \/ currentBucket[1].date # key
           THEN forEachItem(Tail(items), gran, aggregated \o currentBucket,
                            << seedBucket(item, key) >>)
           ELSE forEachItem(Tail(items), gran, aggregated,
                            << accumulate(currentBucket[1], item) >>)

\* Mutant: the early return for 'day' is missing.
aggregate_NoDayReturn(series, gran) ==
  forEachItem(series, gran, <<>>, <<>>)

aggregate(series, gran) ==
  IF gran = "day" THEN series ELSE forEachItem(series, gran, <<>>, <<>>)

\* The daily series once the memo has run.  The writes of the else branch go to
\* currentBucket and to currentBucket.referringDomains; a record of the input
\* is touched only if the bucket seeded from it holds the record's own
\* referringDomains object, which then ends as the bucket's map.
itemsAfter(series, gran) ==
  IF gran = "day" THEN series
  ELSE LET seeds == { i \in DOMAIN series :
                        i = 1 \/ bucketKey(series[i], gran) # bucketKey(series[i - 1], gran) }
           buckets == forEachItem(series, gran, <<>>, <<>>)
       IN  [i \in DOMAIN series |->
              IF i \in seeds /\ ~seedDomains(series[i]).own
              THEN [series[i] EXCEPT !.referringDomains =
                      buckets[Cardinality({ j \in seeds : j <= i })].referringDomains]
              ELSE series[i]]

\* The per-day flow values of a record of getDashboardData.
FlowProfiles ==
  { [visitors |-> 100, pricingViews |-> 20, checkouts |-> 5, purchases |-> 1,
     revenue |-> 5000, renewalRevenue |-> 0, referringDomains |-> "google.com" :> 3],
    [visitors |-> 200, pricingViews |-> 40, checkouts |-> 10, purchases |-> 2,
     revenue |-> 10000, renewalRevenue |-> 2000,
     referringDomains |-> ("google.com" :> 1 @@ "direct" :> 4)],
    [visitors |-> 0, pricingViews |-> 0, checkouts |-> 0, purchases |-> 0,
     revenue |-> 0, renewalRevenue |-> 0, referringDomains |-> NoDomains] }

\* The snapshot values of a record.
Snapshots ==
  { [mrr |-> 900, activeCustomers |-> 2, churnRate |-> 0],
    [mrr |-> 0, activeCustomers |-> 0, churnRate |-> 0] }

\* First days of the series: around the week ends 2023-12-03 and 2023-12-31
\* and the month ends 2023-12-31 and 2024-01-31.
FirstDays == {1, 2, 3, 29, 30, 31, 60, 61}

\* The series setData is given, by getDashboardData or from the stored cache
\* entry: consecutive days, one record each.
DailySeries ==
  { [i \in 1 .. Len(x[1]) |->
       Spread(Spread(x[1][i], x[2][i]), [date |-> first + i - 1])] :
      x \in { y \in SeqsUpTo(FlowProfiles, MaxSeries) \X SeqsUpTo(Snapshots, MaxSeries) :
                Len(y[1]) = Len(y[2]) },
      first \in FirstDays }

\* The client with a fetched series on display, granularity 'day', rendered.
InitClient ==
  /\ BillingIdle
  /\ MergeIdle
  /\ RestIdle
  /\ LoaderIdle
  /\ data \in DailySeries
  /\ tzShift \in {-1, 0}
  /\ granularity = "day"
  /\ aggregatedData = aggregate(data, granularity)

\* onValueChange of the granularity select: setGranularity, then the render
\* recomputes the memo.
setGranularity ==
  /\ \E g \in {"day", "week", "month"} :
       /\ g # granularity
       /\ granularity' = g
       /\ aggregatedData' = aggregate(data, g)
       /\ data' = itemsAfter(data, g)
  /\ UNCHANGED <<billingVars, mergeVars, restVars, tzShift, loaderVars>>

NextClient == setGranularity

SpecClient == InitClient /\ [][NextClient]_vars

\* ------------------------------------------------- DashboardClient.loadData

MaxPending == 2      \* calls of getDashboardData in flight at once

TimeRanges == {"30d", "custom"}

ViewModes == {"simple", "advanced"}

\* A range picked in the calendar: 2023-12-01 to 2023-12-02.
PickedDate == [from |-> 0, to |-> TicksPerDay]

DateRanges == {DefaultDate, PickedDate}

\* { timeRange, viewMode, dateFrom: date?.from?.toISOString(), dateTo: date?.to?.toISOString() }
currentParams(tr, vm, dt) ==
  [timeRange |-> tr, viewMode |-> vm, dateFrom |-> Instant(dt.from), dateTo |-> Instant(dt.to)]

\* effectiveParams: in simple mode dateFrom and dateTo are the day strings of
\* yesterday and today, `now` being new Date().
effectiveParams(tr, vm, dt, now) ==
  IF vm = "simple"
  THEN [currentParams(tr, vm, dt) EXCEPT !.dateFrom = DayString(now - TicksPerDay),
                                        !.dateTo = DayString(now)]
  ELSE currentParams(tr, vm, dt)

\* fetchParams: the same snapping, done again before the call.
fetchParams(tr, vm, dt, now) ==
  IF vm = "simple"
  THEN [currentParams(tr, vm, dt) EXCEPT !.dateFrom = DayString(now - TicksPerDay),
                                        !.dateTo = DayString(now)]
  ELSE currentParams(tr, vm, dt)

\* Mutant: only the two dates are compared.
isMatch_DatesOnly(effective, stored) ==
  /\ stored.state = "entry"
  /\ effective.dateFrom = stored.params.dateFrom
  /\ effective.dateTo = stored.params.dateTo

\* if (cached) { parsedCache = JSON.parse(cached);
\* isMatch = JSON.stringify(effectiveParams) === JSON.stringify(parsedCache.params) }:
\* no entry, or one that does not parse, is no match.
isMatch(effective, stored) ==
  /\ stored.state = "entry"
  /\ effective = stored.params

\* The days getDashboardData computes the series for: 'custom' with yesterday
\* and today in simple mode, 'custom' with the selected dates, or the last 30
\* days.
fetchRange(tr, vm, dt, now) ==
  IF vm = "simple" THEN [from |-> DayOf(now - TicksPerDay), to |-> DayOf(now)]
  ELSE IF tr = "custom" THEN [from |-> DayOf(dt.from), to |-> DayOf(dt.to)]
  ELSE [from |-> DayOf(now) - 30, to |-> DayOf(now)]

\* What getDashboardData can resolve to for a range: the series starts on the
\* range's first day; the figures are the providers'.
Responses(range) ==
  { << Spread(Spread(flow, [mrr |-> 900, activeCustomers |-> 2, churnRate |-> 0]),
              [date |-> range.from]) >> :
      flow \in { f \in FlowProfiles : f.visitors > 0 } }

\* What an earlier session can have left under 'dashboard_data_cache': nothing,
\* something that does not parse, or the entry of its last successful fetch,
\* made today or a day ago.
StoredCaches ==
  {NoCache, [state |-> "corrupt", params |-> NoParams, data |-> <<>>]}
    \cup { [state |-> "entry", params |-> fetchParams(x[1], x[2], x[3], x[4]), data |-> r] :
             x \in {<<"30d", "simple", DefaultDate, Now>>,
                    <<"30d", "simple", DefaultDate, Now - TicksPerDay>>,
                    <<"custom", "advanced", PickedDate, Now>>},
             r \in Responses(fetchRange("30d", "simple", DefaultDate, Now)) }

RemoveAt(s, i) == SubSeq(s, 1, i - 1) \o SubSeq(s, i + 1, Len(s))

\* Mutant: there is no finally block.
finallyBlock_Missing == loading' = loading

\* finally { setLoading(false) }
finallyBlock == loading' = FALSE

\* loadData(forceRefresh) in a render whose state is tr, vm, dt: a cache hit
\* ends it at once; otherwise getDashboardData is called and loadData awaits.
loadData(forceRefresh, tr, vm, dt) ==
  IF ~forceRefresh /\ isMatch(effectiveParams(tr, vm, dt, Now), cache)
  THEN /\ data' = cache.data
       /\ aggregatedData' = cache.data
       /\ loading' = FALSE
       /\ pending' = [k \in DOMAIN pending |-> [pending[k] EXCEPT !.newest = FALSE]]
       /\ latest' = [params |-> effectiveParams(tr, vm, dt, Now), end |-> "hit",
                     data |-> cache.data]
       /\ event' = [kind |-> "hit", force |-> forceRefresh,
                    params |-> effectiveParams(tr, vm, dt, Now), req |-> NoRequest]
       /\ UNCHANGED cache
  ELSE /\ Len(pending) < MaxPending
       /\ loading' = TRUE
       /\ pending' = Append([k \in DOMAIN pending |-> [pending[k] EXCEPT !.newest = FALSE]],
                            [params |-> fetchParams(tr, vm, dt, Now),
                             range |-> fetchRange(tr, vm, dt, Now),
                             newest |-> TRUE])
       /\ latest' = [params |-> fetchParams(tr, vm, dt, Now), end |-> "fetch", data |-> <<>>]
       /\ event' = [kind |-> "fetch", force |-> forceRefresh,
                    params |-> fetchParams(tr, vm, dt, Now), req |-> NoRequest]
       /\ UNCHANGED <<data, aggregatedData, cache>>

\* The page opens: the client is constructed, an earlier session may have
\* left a view mode and a cache entry.
InitLoad ==
  /\ BillingIdle
  /\ MergeIdle
  /\ RestIdle
  /\ data = <<>>
  /\ granularity = "day"
  /\ tzShift = 0
  /\ aggregatedData = <<>>
  /\ timeRange = "30d"
  /\ viewMode = "simple"
  /\ selectedDate = DefaultDate
  /\ savedMode \in {"none"} \cup ViewModes
  /\ phase = "constructed"
  /\ loading = TRUE
  /\ cache \in StoredCaches
  /\ pending = <<>>
  /\ latest = [params |-> NoParams, end |-> "none", data |-> <<>>]
  /\ event = [kind |-> "none", force |-> FALSE, params |-> NoParams, req |-> NoRequest]

\* The mount effects, in order: the saved view mode is handed to setViewMode,
\* then loadData() runs as the first render defined it, in simple mode.
Mount ==
  /\ phase = "constructed"
  /\ loadData(FALSE, timeRange, viewMode, selectedDate)
  /\ phase' = IF savedMode \in ViewModes /\ savedMode # viewMode
              THEN "restoring" ELSE "mounted"
  /\ UNCHANGED <<billingVars, mergeVars, restVars, granularity, tzShift, timeRange,
                 viewMode, selectedDate, savedMode>>

\* The render with the restored view mode: loadData is a new function and the
\* effect calls it.
RestoreViewMode ==
  /\ phase = "restoring"
  /\ viewMode' = savedMode
  /\ loadData(FALSE, timeRange, savedMode, selectedDate)
  /\ phase' = "mounted"
  /\ UNCHANGED <<billingVars, mergeVars, restVars, granularity, tzShift, timeRange,
                 selectedDate, savedMode>>

\* onValueChange of the range select (advanced header), then the effect.
setTimeRange ==
  /\ phase = "mounted"
  /\ viewMode = "advanced"
  /\ \E v \in TimeRanges \ {timeRange} :
       /\ timeRange' = v
       /\ loadData(FALSE, v, viewMode, selectedDate)
  /\ UNCHANGED <<billingVars, mergeVars, restVars, granularity, tzShift, viewMode,
                 selectedDate, savedMode, phase>>

\* onSelect of the calendar (shown for 'custom'), then the effect: the selected
\* range is a new object even when its days are the same.
setDate ==
  /\ phase = "mounted"
  /\ viewMode = "advanced"
  /\ timeRange = "custom"
  /\ \E d \in DateRanges :
       /\ selectedDate' = d
       /\ loadData(FALSE, timeRange, viewMode, d)
  /\ UNCHANGED <<billingVars, mergeVars, restVars, granularity, tzShift, timeRange,
                 viewMode, savedMode, phase>>

\* The switch: setViewMode(mode), localStorage.setItem('dashboard_view_mode', mode),
\* then the effect.
handleViewModeChange ==
  /\ phase = "mounted"
  /\ \E mode \in ViewModes \ {viewMode} :
       /\ viewMode' = mode
       /\ savedMode' = mode
       /\ loadData(FALSE, timeRange, mode, selectedDate)
  /\ UNCHANGED <<billingVars, mergeVars, restVars, granularity, tzShift, timeRange,
                 selectedDate, phase>>

\* The refresh button, disabled while loading: loadData(true).
handleRefresh ==
  /\ phase = "mounted"
  /\ ~loading
  /\ loadData(TRUE, timeRange, viewMode, selectedDate)
  /\ UNCHANGED <<billingVars, mergeVars, restVars, granularity, tzShift, timeRange,
                 viewMode, selectedDate, savedMode, phase>>

\* The i-th pending call resolves: setData(result), the cache entry is written
\* with the parameters of that call, then the finally block.
Resolved(i) ==
  /\ phase = "mounted"
  /\ i \in DOMAIN pending
  /\ \E r \in Responses(pending[i].range) :
       /\ data' = r
       /\ aggregatedData' = r
       /\ cache' = [state |-> "entry", params |-> pending[i].params, data |-> r]
       /\ latest' = IF pending[i].newest
                    THEN [latest EXCEPT !.end = "resolved", !.data = r] ELSE latest
  /\ finallyBlock
  /\ pending' = RemoveAt(pending, i)
  /\ event' = [kind |-> "resolve", force |-> FALSE, params |-> pending[i].params,
               req |-> pending[i]]
  /\ UNCHANGED <<billingVars, mergeVars, restVars, granularity, tzShift, timeRange,
                 viewMode, selectedDate, savedMode, phase>>

\* The i-th pending call rejects: the catch block logs, then the finally block.
Rejected(i) ==
  /\ phase = "mounted"
  /\ i \in DOMAIN pending
  /\ latest' = IF pending[i].newest THEN [latest EXCEPT !.end = "rejected"] ELSE latest
  /\ finallyBlock
  /\ pending' = RemoveAt(pending, i)
  /\ event' = [kind |-> "reject", force |-> FALSE, params |-> pending[i].params,
               req |-> pending[i]]
  /\ UNCHANGED <<billingVars, mergeVars, restVars, granularity, tzShift, timeRange,
                 viewMode, selectedDate, savedMode, phase, data, aggregatedData, cache>>

NextLoad ==
  \/ Mount
  \/ RestoreViewMode
  \/ setTimeRange
  \/ setDate
  \/ handleViewModeChange
  \/ handleRefresh
  \/ \E i \in 1 .. MaxPending : Resolved(i)
  \/ \E i \in 1 .. MaxPending : Rejected(i)

SpecLoad == InitLoad /\ [][NextLoad]_vars

\* The effects of a render run, and every call of the server action settles:
\* the oldest pending call is eventually answered or fails.
FairLoad ==
  /\ SpecLoad
  /\ WF_vars(Mount)
  /\ WF_vars(RestoreViewMode)
  /\ WF_vars(Resolved(1) \/ Rejected(1))

\* ------------------------------------------------------- fetchPostHogData

\* events[index].name
metricNames == <<"visitors", "pricingViews", "checkouts", "purchases">>

\* The date axes, counts and payloads the analytics provider answers with.  A
\* payload may lack `result`, and an event result may lack `days`.
DayAxes == {<<>>, <<0>>, <<0, 1>>, <<1, 0>>}

EventResults ==
  [hasDays : {TRUE}, days : DayAxes, data : {<<>>, <<40>>, <<40, 7>>}]
    \cup {[hasDays |-> FALSE, days |-> <<>>, data |-> <<40>>]}

MaxEvents == 2       \* event results in a trend payload

TrendPayloads ==
  {[hasResult |-> FALSE, result |-> <<>>]}
    \cup [hasResult : {TRUE}, result : SeqsUpTo(EventResults, MaxEvents)]

DomainItems ==
  [label : {"google.com"}, hasDays : {TRUE}, days : {<<0>>, <<0, 1>>}, data : {<<3>>, <<3, 4>>}]

DomainPayloads ==
  {[hasResult |-> FALSE, result |-> <<>>]}
    \cup [hasResult : {TRUE}, result : SeqsUpTo(DomainItems, 1)]

\* { result: [] }
NoDomainData == [hasResult |-> TRUE, result |-> <<>>]

\* results[day] = { date: day, zeros, referringDomains: {} } for each day of
\* trendData.result[0].days
InitResults(trend) ==
  IF trend.hasResult /\ Len(trend.result) > 0
  THEN [d \in { trend.result[1].days[k] : k \in DOMAIN trend.result[1].days } |->
          [date |-> d, visitors |-> 0, pricingViews |-> 0, checkouts |-> 0,
           purchases |-> 0, referringDomains |-> NoDomains]]
  ELSE [d \in {} |-> 0]

\* eventResult.data.forEach((count, idx) => { const date = eventResult.days[idx];
\* if (results[date]) results[date][metricName] = count })
RECURSIVE FillCounts(_, _, _, _)
FillCounts(results, eventResult, metricName, idx) ==
  IF idx > Len(eventResult.data) THEN results
  ELSE LET next ==
             IF idx \in DOMAIN eventResult.days /\ eventResult.days[idx] \in DOMAIN results
             THEN [results EXCEPT ![eventResult.days[idx]][metricName] = eventResult.data[idx]]
             ELSE results
       IN  FillCounts(next, eventResult, metricName, idx + 1)

\* Mutant: only the first event's counts are filled in.
FillEvents_FirstOnly(results, trend, index) ==
  IF Len(trend.result) = 0 THEN results
  ELSE FillCounts(results, trend.result[1], metricNames[1], 1)

\* trendData.result.forEach((eventResult, index) => { const metricName =
\* events[index].name; eventResult.data.forEach(...) })
RECURSIVE FillEvents(_, _, _)
FillEvents(results, trend, index) ==
  IF index > Len(trend.result) THEN results
  ELSE FillEvents(FillCounts(results, trend.result[index], metricNames[index], 1),
                  trend, index + 1)

\* results[date].referringDomains[domain] = count
RECURSIVE FillDomain(_, _, _)
FillDomain(results, item, idx) ==
  IF idx > Len(item.data) THEN results
  ELSE LET next ==
             IF idx \in DOMAIN item.days /\ item.days[idx] \in DOMAIN results
             THEN [results EXCEPT ![item.days[idx]].referringDomains =
                     Spread(@, item.label :> item.data[idx])]
             ELSE results
       IN  FillDomain(next, item, idx + 1)

RECURSIVE FillDomains(_, _, _)
FillDomains(results, domain, k) ==
  IF ~domain.hasResult \/ k > Len(domain.result) THEN results
  ELSE FillDomains(FillDomain(results, domain.result[k], 1), domain, k + 1)

\* The processing throws a TypeError: trendData.result is undefined at
\* trendData.result.forEach, there are more event results than events, or an
\* event result without `days` is read (result[0].days.forEach, days[idx]).
ProcessingThrows(trend) ==
  \/ ~trend.hasResult
  \/ Len(trend.result) > Len(metricNames)
  \/ Len(trend.result) > 0 /\ ~trend.result[1].hasDays
  \/ \E index \in DOMAIN trend.result :
       ~trend.result[index].hasDays /\ trend.result[index].data # <<>>

\* Object.values(results).sort((a, b) => a.date.localeCompare(b.date))
ProcessResults(trend, domain) ==
  LET results == FillDomains(FillEvents(InitResults(trend), trend, 1), domain, 1)
      dates == SortByDate(DOMAIN results)
  IN  [i \in DOMAIN dates |-> results[dates[i]]]

\* generateMockPostHogData.  Each record draws Math.random() six times; the
\* draws of one record are taken together at one of the two extremes, 0 (low)
\* or just under 1 (high).
RECURSIVE MockDates(_, _)
MockDates(currentDate, end) ==
  IF currentDate <= end
  THEN <<DayOf(currentDate)>> \o MockDates(currentDate + TicksPerDay, end)
  ELSE <<>>

mockDomains == <<"google.com", "twitter.com", "linkedin.com", "direct", "facebook.com">>

\* Math.floor(Math.random() * (remainingVisitors / 2))
Draw(high, remainingVisitors) ==
  IF high /\ remainingVisitors > 0 THEN (remainingVisitors + 1) \div 2 - 1 ELSE 0

RECURSIVE MockReferrers(_, _, _, _)
MockReferrers(high, k, remainingVisitors, referringDomains) ==
  IF k > Len(mockDomains)
  THEN IF remainingVisitors > 0
       THEN Spread(referringDomains, "other" :> remainingVisitors)
       ELSE referringDomains
  ELSE LET count == Draw(high, remainingVisitors)
       IN  MockReferrers(high, k + 1, remainingVisitors - count,
                         Spread(referringDomains, mockDomains[k] :> count))

MockRecord(day, high) ==
  LET visitors == 500 + (IF high THEN 499 ELSE 0)
      pricingViews == (visitors * 3) \div 10
      checkouts == pricingViews \div 10
      purchases == checkouts \div 2
  IN  [date |-> day, visitors |-> visitors, pricingViews |-> pricingViews,
       checkouts |-> checkouts, purchases |-> purchases,
       referringDomains |-> MockReferrers(high, 1, visitors, NoDomains)]

generateMockPostHogData(start, end) ==
  LET dates == MockDates(start, end)
  IN  { [i \in DOMAIN dates |-> MockRecord(dates[i], draws[i])] :
          draws \in [DOMAIN dates -> BOOLEAN] }

\* return generateMockPostHogData(startDate, endDate)
ReturnMock ==
  /\ phResult' \in generateMockPostHogData(startDate, endDate)
  /\ mocked' = TRUE
  /\ phOutcome' = "returned"
  /\ phPc' = "done"

\* The catch block: log, return the mock series.
PostHogCatch ==
  /\ thrown' = TRUE
  /\ ReturnMock

\* The processing of the two payloads and the return, or the catch block.
ProcessAndReturn(trend, domain) ==
  IF ProcessingThrows(trend)
  THEN PostHogCatch
  ELSE /\ phResult' = ProcessResults(trend, domain)
       /\ phOutcome' = "returned"
       /\ phPc' = "done"
       /\ UNCHANGED <<mocked, thrown>>

\* A call of fetchPostHogData(startDate, endDate) is about to start.
InitAnalytics ==
  /\ MergeIdle
  /\ ClientIdle
  /\ ProviderIdle
  /\ ChartIdle
  /\ apiKey = TRUE
  /\ storeId = TRUE
  /\ startDate \in Times
  /\ endDate \in Times
  /\ startDate <= endDate
  /\ pc = "idle"
  /\ page = 1
  /\ inflight = FALSE
  /\ allOrders = <<>>
  /\ allInvoices = <<>>
  /\ allCustomers = <<>>
  /\ allSubs = <<>>
  /\ result = <<>>
  /\ outcome = "pending"
  /\ requested = {}
  /\ failed = FALSE
  /\ paidServed = [d \in Days |-> [n |-> 0, cents |-> 0]]
  /\ lastRequest = <<>>
  /\ phApiKey \in BOOLEAN
  /\ phProjectId \in BOOLEAN
  /\ phPc = "idle"
  /\ trendStatus = "none"
  /\ domainStatus = "none"
  /\ trendData = <<>>
  /\ domainData = <<>>
  /\ phResult = <<>>
  /\ phOutcome = "pending"
  /\ mocked = FALSE
  /\ thrown = FALSE

\* The entry of fetchPostHogData: the credential check, then the trend query.
CallPostHog ==
  /\ phPc = "idle"
  /\ IF ~phApiKey \/ ~phProjectId
     THEN ReturnMock
     ELSE /\ phPc' = "trend"
          /\ UNCHANGED <<phResult, phOutcome, mocked>>
  /\ UNCHANGED <<billingVars, mergeVars, clientVars, providerVars, chartVars, phApiKey,
                 phProjectId, trendStatus, domainStatus, trendData, domainData, thrown>>

\* The trend query answers OK and its body parses: the domain query leaves.
TrendResponds ==
  /\ phPc = "trend"
  /\ \E payload \in TrendPayloads :
       /\ trendData' = payload
       /\ trendStatus' = "ok"
       /\ phPc' = "domain"
  /\ UNCHANGED <<billingVars, mergeVars, clientVars, providerVars, chartVars, phApiKey,
                 phProjectId, domainStatus, domainData, phResult, phOutcome, mocked, thrown>>

\* if (!trendResponse.ok) throw new Error(...)
TrendNotOk ==
  /\ phPc = "trend"
  /\ trendStatus' = "notok"
  /\ PostHogCatch
  /\ UNCHANGED <<billingVars, mergeVars, clientVars, providerVars, chartVars, phApiKey,
                 phProjectId, domainStatus, trendData, domainData>>

\* fetch rejects (the network fails), or trendResponse.json() rejects.
TrendThrows ==
  /\ phPc = "trend"
  /\ trendStatus' = "threw"
  /\ PostHogCatch
  /\ UNCHANGED <<billingVars, mergeVars, clientVars, providerVars, chartVars, phApiKey,
                 phProjectId, domainStatus, trendData, domainData>>

\* The domain query answers OK and its body parses.
DomainResponds ==
  /\ phPc = "domain"
  /\ \E payload \in DomainPayloads :
       /\ domainData' = payload
       /\ domainStatus' = "ok"
       /\ ProcessAndReturn(trendData, payload)
  /\ UNCHANGED <<billingVars, mergeVars, clientVars, providerVars, chartVars, phApiKey,
                 phProjectId, trendStatus, trendData>>

\* if (!domainResponse.ok) console.error(...); domainData = { result: [] }
DomainNotOk ==
  /\ phPc = "domain"
  /\ domainData' = NoDomainData
  /\ domainStatus' = "notok"
  /\ ProcessAndReturn(trendData, NoDomainData)
  /\ UNCHANGED <<billingVars, mergeVars, clientVars, providerVars, chartVars, phApiKey,
                 phProjectId, trendStatus, trendData>>

\* The second fetch rejects, or domainResponse.json() / .text() rejects: the
\* exception leaves the try block.
DomainThrows ==
  /\ phPc = "domain"
  /\ domainStatus' = "threw"
  /\ PostHogCatch
  /\ UNCHANGED <<billingVars, mergeVars, clientVars, providerVars, chartVars, phApiKey,
                 phProjectId, trendStatus, trendData, domainData>>

NextAnalytics ==
  \/ CallPostHog
  \/ TrendResponds
  \/ TrendNotOk
  \/ TrendThrows
  \/ DomainResponds
  \/ DomainNotOk
  \/ DomainThrows

SpecAnalytics == InitAnalytics /\ [][NextAnalytics]_vars

\* ------------------------------------------------ OverviewChart.processedData

\* A JavaScript value read off a record: a number (a natural here), undefined
\* for an absent field, or a value that is not a number (the date string, the
\* referringDomains object).  A computed rate is a reduced fraction or NaN.
Number(n) == [t |-> "number", v |-> n]

Undefined == [t |-> "undefined", v |-> 0]

NotANumber == [t |-> "other", v |-> 0]

IsNumber(x) == x.t = "number"

RECURSIVE GCD(_, _)
GCD(a, b) == IF b = 0 THEN a ELSE GCD(b, a % b)

Fraction(n, d) ==
  LET g == GCD(n, d) IN [t |-> "number", num |-> n \div g, den |-> d \div g]

Zero == [t |-> "number", num |-> 0, den |-> 1]

NaN == [t |-> "NaN", num |-> 0, den |-> 0]

NumericFields ==
  {"visitors", "pricingViews", "checkouts", "purchases", "mrr", "revenue",
   "renewalRevenue", "churnRate", "activeCustomers"}

\* (item as any)[name]
Field(item, name) ==
  IF name \notin DOMAIN item THEN Undefined
  ELSE IF name \in NumericFields THEN Number(item[name])
  ELSE NotANumber

\* !denominator: undefined and 0 are falsy, a string or an object is not.
Falsy(x) == x.t = "undefined" \/ (x.t = "number" /\ x.v = 0)

\* if (!denominator || denominator === 0) return 0;
\* return (numerator / denominator) * 100;
\* a non-numeric operand makes the quotient NaN.
calculateRate(numerator, denominator) ==
  IF Falsy(denominator) THEN Zero
  ELSE IF IsNumber(numerator) /\ IsNumber(denominator)
       THEN Fraction(numerator.v * 100, denominator.v)
       ELSE NaN

processItem(item, config) ==
  Spread(item,
    [visitorToPriceViewRate |-> calculateRate(Number(item.pricingViews), Number(item.visitors)),
     priceViewToCheckoutRate |-> calculateRate(Number(item.checkouts), Number(item.pricingViews)),
     checkoutToPurchaseRate |-> calculateRate(Number(item.purchases), Number(item.checkouts)),
     customRate |-> calculateRate(Field(item, config.numerator),
                                  Field(item, config.denominator))])

\* data.map((item) => ({ ...item, ...rates }))
processData(series, config) ==
  [i \in DOMAIN series |-> processItem(series[i], config)]

\* The values of the two selects of the custom-rate dialog.
metricOptions == {"visitors", "pricingViews", "checkouts", "purchases", "mrr"}

\* What localStorage can hold under 'dashboard_custom_rate_config': a pair
\* written by saveCustomConfig, or a pair naming something else.
StoredNames == metricOptions \cup {"signups", "date"}

PersistedConfigs == [numerator : StoredNames, denominator : StoredNames]

\* The series the chart is given.
ChartSeries == { s \in DailySeries : s # <<>> /\ s[1].date = 1 }

\* The chart mounted on a series: the mount effect has restored the persisted
\* configuration, if any, and the memo has run.
InitChart ==
  /\ BillingIdle
  /\ MergeIdle
  /\ ProviderIdle
  /\ AnalyticsIdle
  /\ LoaderIdle
  /\ data \in ChartSeries
  /\ tzShift = 0
  /\ granularity = "day"
  /\ aggregatedData = data
  /\ customConfig \in PersistedConfigs
  /\ processedData = processData(aggregatedData, customConfig)

\* onValueChange of either select: saveCustomConfig({ ...customConfig, [field]: val }),
\* then the render recomputes the memo.
saveCustomConfig ==
  /\ \E field \in {"numerator", "denominator"}, val \in metricOptions :
       /\ customConfig[field] # val
       /\ customConfig' = [customConfig EXCEPT ![field] = val]
       /\ processedData' = processData(aggregatedData, customConfig')
  /\ UNCHANGED <<billingVars, mergeVars, clientVars, providerVars, analyticsVars>>

NextChart == saveCustomConfig

SpecChart == InitChart /\ [][NextChart]_vars

\* ------------------------------------- getDashboardData: the two fetches

\* Promise.all has resolved: neither fetch rejects, so it resolves when both
\* have returned.
BothSettled_Either == outcome = "returned" \/ phOutcome = "returned"

BothSettled == outcome = "returned" /\ phOutcome = "returned"

\* getDashboardData has computed the range and is at
\* Promise.all([fetchLemonSqueezyData(startDate, endDate), fetchPostHogData(startDate, endDate)]):
\* both calls are made before anything is awaited.
InitDashboard ==
  /\ ClientIdle
  /\ ProviderIdle
  /\ ChartIdle
  /\ apiKey \in BOOLEAN
  /\ storeId = TRUE
  /\ startDate \in Times
  /\ endDate \in Times
  /\ startDate <= endDate
  /\ pc = "idle"
  /\ page = 1
  /\ inflight = FALSE
  /\ allOrders = <<>>
  /\ allInvoices = <<>>
  /\ allCustomers = <<>>
  /\ allSubs = <<>>
  /\ result = <<>>
  /\ outcome = "pending"
  /\ requested = {}
  /\ failed = FALSE
  /\ paidServed = [d \in Days |-> [n |-> 0, cents |-> 0]]
  /\ lastRequest = <<>>
  /\ phApiKey \in BOOLEAN
  /\ phProjectId = TRUE
  /\ phPc = "idle"
  /\ trendStatus = "none"
  /\ domainStatus = "none"
  /\ trendData = <<>>
  /\ domainData = <<>>
  /\ phResult = <<>>
  /\ phOutcome = "pending"
  /\ mocked = FALSE
  /\ thrown = FALSE
  /\ lemonData = <<>>
  /\ postHogData = <<>>
  /\ mergedData = <<>>
  /\ mergePc = "started"

\* const [lemonData, postHogData] = await Promise.all([...]) resumes.
AwaitBoth ==
  /\ mergePc = "started"
  /\ BothSettled
  /\ lemonData' = result
  /\ postHogData' = phResult
  /\ mergePc' = "awaited"
  /\ UNCHANGED <<billingVars, clientVars, restVars, mergedData>>

\* The steps of the two fetches in any order; the billing provider answers
\* each list request with an error or with no data.
NextDashboard ==
  \/ Call
  \/ Request
  \/ RespondNoData
  \/ RespondError
  \/ CallPostHog
  \/ TrendResponds
  \/ TrendNotOk
  \/ TrendThrows
  \/ DomainResponds
  \/ DomainNotOk
  \/ DomainThrows
  \/ AwaitBoth
  \/ MergeData

SpecDashboard == InitDashboard /\ [][NextDashboard]_vars

\* The event loop runs every ready continuation and the provider answers every
\* request: a step that can be taken is eventually taken.
FairSpec == Spec /\ WF_vars(Next)

\* ------------------------------------------------------------------ claims

Success == pc = "done" /\ apiKey /\ ~failed

RECURSIVE SumOver(_, _)
SumOver(f, K) ==
  IF K = {} THEN 0
  ELSE LET k == CHOOSE x \in K : TRUE IN f[k] + SumOver(f, K \ {k})

\* C1: each paginated fetch stops after finitely many page requests whatever
\* the provider answers, so every call of fetchLemonSqueezyData returns.
C1_FetchTerminates == <>(pc = "done")

\* The invoices that count: paid, billing_reason other than 'initial', no order_id.
QualifyingOn(d) ==
  { k \in DOMAIN allInvoices : /\ allInvoices[k].status = "paid"
                               /\ allInvoices[k].billing_reason # "initial"
                               /\ allInvoices[k].order_id = 0
                               /\ DayOf(allInvoices[k].created) = d }

RenewalOn(d) == SumOver([k \in DOMAIN allInvoices |-> allInvoices[k].total], QualifyingOn(d))

\* The ledger the same orders give when there is no invoice at all.
OrdersOnlyLedger ==
  BuildLedger(allOrders, <<>>, allCustomers, allSubs, startDate, endDate)

\* C2: of the collected invoices only the paid ones that are not initial
\* (billing_reason 'initial', or an order_id) change the ledger: each adds its
\* total to revenue and to renewalRevenue of the record of its created_at day
\* and purchases stay what the orders alone give; every other invoice changes
\* nothing.
C2_OnlyPaidRenewalInvoicesCount ==
  Success =>
    /\ Len(result) = Len(OrdersOnlyLedger)
    /\ \A i \in DOMAIN result :
         /\ result[i].renewalRevenue = RenewalOn(result[i].date)
         /\ result[i].revenue = OrdersOnlyLedger[i].revenue + RenewalOn(result[i].date)
         /\ result[i].purchases = OrdersOnlyLedger[i].purchases

C2_Witness ==
  /\ Success
  /\ \E i \in DOMAIN result : result[i].renewalRevenue > 0 /\ result[i].purchases = 0
  /\ \E k \in DOMAIN allInvoices :
       /\ allInvoices[k].status = "paid"
       /\ allInvoices[k].billing_reason = "renewal"
       /\ allInvoices[k].order_id # 0
       /\ \E i \in DOMAIN result : result[i].date = DayOf(allInvoices[k].created)

\* C3: in every returned ledger, every record has renewalRevenue <= revenue
\* (the provider's totals are non-negative).
C3_RenewalWithinRevenue ==
  pc = "done" => \A i \in DOMAIN result : result[i].renewalRevenue <= result[i].revenue

C3_Witness ==
  /\ Success
  /\ \E i \in DOMAIN result :
       result[i].renewalRevenue > 0 /\ result[i].revenue > result[i].renewalRevenue

\* C4: a successful call returns exactly one record for each calendar day from
\* startDate's day through endDate's day, in ascending order.
C4_OneRecordPerDay ==
  Success =>
    /\ Len(result) = DayOf(endDate) - DayOf(startDate) + 1
    /\ \A i \in DOMAIN result : result[i].date = DayOf(startDate) + i - 1

\* C5: the paid orders created inside [startDate, endDate] are exactly what the
\* ledger counts: per day, purchases is their number and the revenue that does
\* not come from invoices is the sum of their totals; over the ledger, the
\* purchases add up to the number of such orders.
C5_PaidOrdersInRangeCounted ==
  Success =>
    /\ \A i \in DOMAIN result :
         /\ result[i].purchases = paidServed[result[i].date].n
         /\ result[i].revenue - result[i].renewalRevenue = paidServed[result[i].date].cents
    /\ SumOver([i \in DOMAIN result |-> result[i].purchases], DOMAIN result)
         = SumOver([d \in Days |-> paidServed[d].n], Days)

\* C6: once a page request has failed the call returns the empty series, and
\* it returns rather than rejects.
C6_ErrorGivesEmptySeries ==
  failed => (pc = "done" /\ outcome = "returned" /\ result = <<>>)

C6_Witness ==
  /\ failed
  /\ pc = "done"
  /\ \E k \in DOMAIN allOrders : allOrders[k].status = "paid" /\ allOrders[k].total > 0
  /\ requested = {"orders", "invoices", "customers"}

\* C7: with the API key or the store id missing, no request is issued and the
\* empty series is returned.
C7_NoRequestWithoutCredentials ==
  (~apiKey \/ ~storeId) => (requested = {} /\ (pc = "done" => result = <<>>))

\* C8: the merged series has one record for each ledger record, with the
\* ledger's dates in the ledger's order, and no other record; an empty ledger
\* gives an empty series whatever the analytics series holds.
C8_MergedFollowsLedger ==
  mergePc = "merged" =>
    /\ Len(mergedData) = Len(lemonData)
    /\ \A i \in DOMAIN lemonData : mergedData[i].date = lemonData[i].date
    /\ \A d \in 0 .. (MaxDay + 1) :
         Cardinality({i \in DOMAIN mergedData : mergedData[i].date = d})
           = Cardinality({i \in DOMAIN lemonData : lemonData[i].date = d})

C8_Witness ==
  /\ mergePc = "merged"
  /\ Len(mergedData) = 2
  /\ \E i \in DOMAIN lemonData : \A j \in DOMAIN postHogData : postHogData[j].date # lemonData[i].date
  /\ \E j \in DOMAIN postHogData : \A i \in DOMAIN lemonData : postHogData[j].date # lemonData[i].date

\* C9: every merged record carries the ledger's purchases of its date, never
\* the analytics series' purchases.
C9_PurchasesFromLedger ==
  mergePc = "merged" =>
    \A i \in DOMAIN mergedData : mergedData[i].purchases = lemonData[i].purchases

C9_Witness ==
  /\ mergePc = "merged"
  /\ \E i \in DOMAIN lemonData, j \in DOMAIN postHogData :
       /\ postHogData[j].date = lemonData[i].date
       /\ postHogData[j].purchases = 5
       /\ lemonData[i].purchases = 1
       /\ mergedData[i].purchases = 1
       /\ mergedData[i].visitors = 40
  /\ \E i \in DOMAIN lemonData :
       /\ \A j \in DOMAIN postHogData : postHogData[j].date # lemonData[i].date
       /\ mergedData[i].purchases = lemonData[i].purchases

FlowFields == {"visitors", "pricingViews", "checkouts", "purchases", "revenue", "renewalRevenue"}

DomainKeys == {"google.com", "direct"}

Total(series, field) == SumOver([i \in DOMAIN series |-> series[i][field]], DOMAIN series)

DomainTotal(series, k) ==
  SumOver([i \in DOMAIN series |->
             IF k \in DOMAIN series[i].referringDomains
             THEN series[i].referringDomains[k] ELSE 0], DOMAIN series)

\* C10: with granularity week or month, each flow field (visitors,
\* pricingViews, checkouts, purchases, revenue, renewalRevenue) and each
\* referring-domain count adds up over the buckets to what it adds up to over
\* the daily records.
C10_BucketingPreservesTotals ==
  granularity \in {"week", "month"} =>
    /\ \A f \in FlowFields : Total(aggregatedData, f) = Total(data, f)
    /\ \A k \in DomainKeys : DomainTotal(aggregatedData, k) = DomainTotal(data, k)

C10_Witness ==
  /\ granularity = "week"
  /\ Len(data) = 3
  /\ Len(aggregatedData) = 2
  /\ Total(data, "revenue") = 15000
  /\ \E i \in DOMAIN aggregatedData : aggregatedData[i].revenue = 15000
  /\ DomainTotal(data, "google.com") > 3

\* C11: with granularity day the bucketing returns its input: the same records
\* in the same order with the same field values.
C11_DayIsIdentity ==
  granularity = "day" => aggregatedData = data

C11_Witness ==
  /\ granularity = "day"
  /\ Len(data) = 3
  /\ aggregatedData = data
  /\ Len(aggregate(data, "week")) = 2
  /\ Len(aggregate(data, "month")) = 1
  /\ Total(data, "revenue") = 15000

RateInputs(item, config) ==
  [visitorToPriceViewRate |-> <<Number(item.pricingViews), Number(item.visitors)>>,
   priceViewToCheckoutRate |-> <<Number(item.checkouts), Number(item.pricingViews)>>,
   checkoutToPurchaseRate |-> <<Number(item.purchases), Number(item.checkouts)>>,
   customRate |-> <<Field(item, config.numerator), Field(item, config.denominator)>>]

\* C12: in every record, each of the four rates is 0 when its denominator is
\* zero, is never NaN, and otherwise equals numerator / denominator * 100.
C12_RatesNeverNaN ==
  \A i \in DOMAIN processedData :
    \A rate \in DOMAIN RateInputs(aggregatedData[i], customConfig) :
      LET numerator == RateInputs(aggregatedData[i], customConfig)[rate][1]
          denominator == RateInputs(aggregatedData[i], customConfig)[rate][2]
          out == processedData[i][rate]
      IN  /\ out.t = "number"
          /\ (IsNumber(denominator) /\ denominator.v = 0) => out = Zero
          /\ (IsNumber(numerator) /\ IsNumber(denominator) /\ denominator.v # 0)
               => out.num * denominator.v = 100 * numerator.v * out.den

\* The calendar days from startDate's through endDate's, in order.
CalendarDays == [i \in 1 .. (DayOf(endDate) - DayOf(startDate) + 1) |-> DayOf(startDate) + i - 1]

DatesOf(series) == [i \in DOMAIN series |-> series[i].date]

\* C13: with a credential missing, a non-OK trend response or an exception,
\* fetchPostHogData returns (never rejects) the mock series, which has exactly
\* one record for each calendar day from startDate's through endDate's.
C13_MockOnFailure ==
  /\ phOutcome # "rejected"
  /\ (phPc = "done" /\ (~phApiKey \/ ~phProjectId \/ trendStatus = "notok" \/ thrown))
       => (mocked /\ phOutcome = "returned" /\ DatesOf(phResult) = CalendarDays)

\* C14: when the trend query succeeded and the domain query failed (non-OK, or
\* an exception), the call returns the trend data with empty referringDomains
\* maps, not the mock series.
C14_DomainFailureNonFatal ==
  (phPc = "done" /\ trendStatus = "ok" /\ ~ProcessingThrows(trendData)
     /\ domainStatus \in {"notok", "threw"})
    => /\ ~mocked
       /\ phResult = ProcessResults(trendData, NoDomainData)
       /\ \A i \in DOMAIN phResult : phResult[i].referringDomains = NoDomains

\* C15: every call completes with a returned series and never rejects,
\* whatever the providers answer.
C15_AlwaysReturns == [](outcome # "rejected") /\ <>(outcome = "returned")

\* The customers (entries of the collected list) with an active subscription.
ActiveEntries ==
  { k \in DOMAIN allCustomers :
      \E j \in DOMAIN allSubs : allSubs[j].customer_id = allCustomers[k].id }

\* C16: the ledger's mrr is the sum of mrr over exactly the customers whose id
\* is the customer id of some active subscription, each summed once however
\* many subscriptions the customer holds; activeCustomers is the number of
\* active subscriptions.
C16_MrrOverActiveCustomers ==
  (pc = "done" /\ ~failed) =>
    \A i \in DOMAIN result :
      /\ result[i].mrr = SumOver([k \in DOMAIN allCustomers |-> allCustomers[k].mrr], ActiveEntries)
      /\ result[i].activeCustomers = Len(allSubs)

C16_Witness ==
  /\ pc = "done"
  /\ allCustomers = <<[id |-> 1, mrr |-> 900], [id |-> 2, mrr |-> 900]>>
  /\ allSubs = <<[customer_id |-> 1], [customer_id |-> 1]>>
  /\ result # <<>>
  /\ result[1].mrr = 900
  /\ result[1].activeCustomers = 2

\* C17: all records of a returned ledger carry the same mrr and the same
\* activeCustomers, and churnRate is 0 in each.
C17_SnapshotOnEveryDay ==
  pc = "done" =>
    \A i \in DOMAIN result :
      /\ result[i].churnRate = 0
      /\ \A j \in DOMAIN result :
           /\ result[i].mrr = result[j].mrr
           /\ result[i].activeCustomers = result[j].activeCustomers

C17_Witness ==
  /\ Success
  /\ Len(result) = 2
  /\ result[1].mrr = 900
  /\ result[2].activeCustomers = 1

\* C18: with the provider's orders sorted newest first and unchanged during
\* the fetch, when the orders loop stops because the last record of a page is
\* older than startDate, every record created at or after startDate lies on a
\* page that was requested, and every record in range has been collected.
C18_ShortCircuitSound ==
  [][ (pc = "orders" /\ pc' = "invoices" /\ ~changed' /\ LastItemTooOld(PageOf(store, page)))
        => \A k \in DOMAIN store :
             store[k].created >= startDate
               => /\ k <= page * PageSize
                  /\ InRange(store[k])
                       => \E j \in DOMAIN allOrders' : allOrders'[j] = store[k] ]_vars

C18_Witness ==
  /\ pc = "invoices"
  /\ ~changed
  /\ lastRequest = <<"orders", 1>>
  /\ LastPageOf(store) = 2
  /\ LastItemTooOld(PageOf(store, 1))
  /\ Len(allOrders) = 1
  /\ allOrders[1] = store[1]

\* The distinct paid orders of day d the provider holds.
PaidOrderIdsOn(d) ==
  { store[k].id : k \in { h \in DOMAIN store :
                            store[h].status = "paid" /\ DayOf(store[h].created) = d } }

\* C19: each distinct order counts at most once in the ledger, also when an
\* order is created between two page requests: no day's purchases exceed the
\* number of distinct paid orders of that day.
C19_NoOrderCountedTwice ==
  (pc = "done" /\ ~failed) =>
    \A i \in DOMAIN result :
      /\ result[i].purchases <= Cardinality(PaidOrderIdsOn(result[i].date))
      /\ result[i].revenue <= 250 * Cardinality(PaidOrderIdsOn(result[i].date))

\* The list call that follows the calls of resource r.
NextResource(r) ==
  CASE r = "orders" -> "invoices"
    [] r = "invoices" -> "customers"
    [] r = "customers" -> "subs"
    [] r = "subs" -> "none"

\* C20: a list request leaves only when none is awaiting its response and no
\* response was an error; the first is orders page 1; each later one is either
\* the next page of the same resource or page 1 of the next resource in the
\* order orders, invoices, customers, subscriptions.  (A page counter that has
\* reached MaxPage, the value where page++ no longer changes it, is exempt
\* from "next page".)
C20_RequestsInOrder ==
  [][ (inflight' /\ ~inflight)
        => /\ ~failed
           /\ IF lastRequest = <<>>
              THEN lastRequest' = <<"orders", 1>>
              ELSE \/ /\ lastRequest'[1] = lastRequest[1]
                      /\ \/ lastRequest'[2] = lastRequest[2] + 1
                         \/ lastRequest[2] = MaxPage
                   \/ /\ lastRequest'[1] = NextResource(lastRequest[1])
                      /\ lastRequest'[2] = 1 ]_vars

C20_Witness ==
  /\ pc = "done"
  /\ ~failed
  /\ requested = Resources
  /\ lastRequest = <<"subs", 2>>
  /\ Len(allOrders) = 1
  /\ Len(allCustomers) = 1

\* C21: getDashboardData makes both calls before awaiting either, merges only
\* once the billing fetch and the analytics fetch have both returned, and what
\* it returns is the merge by date of the two series, each of which is what its
\* own provider's responses determine, whatever the order the responses of the
\* two providers arrived in.
C21_MergeAfterBothAnyOrder ==
  /\ mergePc = "started" /\ phPc = "idle" => ENABLED CallPostHog
  /\ mergePc = "started" /\ pc = "idle" => ENABLED Call
  /\ mergePc \in {"awaited", "merged"} =>
       /\ pc = "done"
       /\ phPc = "done"
       /\ lemonData = result
       /\ postHogData = phResult
       /\ result = IF ~apiKey \/ failed THEN <<>>
                   ELSE BuildLedger(allOrders, allInvoices, allCustomers, allSubs,
                                    startDate, endDate)
       /\ phResult \in IF mocked THEN generateMockPostHogData(startDate, endDate)
                       ELSE {ProcessResults(trendData, domainData)}
  /\ mergePc = "merged" => mergedData = mergeByDate(result, phResult)

\* Both fetches answered with data and the merged series carries both.
C21_Witness ==
  /\ mergePc = "merged"
  /\ ~mocked
  /\ ~failed
  /\ Len(mergedData) = 2
  /\ mergedData[1].visitors = 40
  /\ "mrr" \in DOMAIN mergedData[1]

\* The days on the date axis of the first event result of the trend payload.
FirstAxis(trend) ==
  IF Len(trend.result) = 0 THEN {}
  ELSE { trend.result[1].days[k] : k \in DOMAIN trend.result[1].days }

\* The count an item of a payload (an event result, a referring domain) reports
\* for day d: the value at d's position on the item's own date axis, 0 when d
\* is not on it or no value stands at that position.
Reported(item, d) ==
  LET at == { idx \in DOMAIN item.days \cap DOMAIN item.data : item.days[idx] = d }
  IN  IF at = {} THEN 0
      ELSE item.data[CHOOSE idx \in at : \A other \in at : other <= idx]

\* The referring domains the payload reports a count for on day d.
LabelsOn(domain, d) ==
  { domain.result[k].label : k \in { j \in DOMAIN domain.result : \E idx \in DOMAIN domain.result[j].days \cap DOMAIN domain.result[j].data : domain.result[j].days[idx] = d } }

\* C22: a fetch that did not fall back to the mock series returns one record
\* for each day of the first event result's date axis and no other, ascending
\* by date; each counter is the count its event reports for that day, 0 when
\* none is reported; each referringDomains map holds the counts reported for
\* that day; what is reported for days off the axis appears nowhere.
C22_OneRecordPerAxisDay ==
  (phPc = "done" /\ ~mocked) =>
    /\ { phResult[i].date : i \in DOMAIN phResult } = FirstAxis(trendData)
    /\ Len(phResult) = Cardinality(FirstAxis(trendData))
    /\ \A i \in DOMAIN phResult : \A j \in DOMAIN phResult :
         i < j => phResult[i].date < phResult[j].date
    /\ \A i \in DOMAIN phResult :
         /\ \A m \in DOMAIN metricNames :
              phResult[i][metricNames[m]] =
                IF m \in DOMAIN trendData.result
                THEN Reported(trendData.result[m], phResult[i].date)
                ELSE 0
         /\ DOMAIN phResult[i].referringDomains = LabelsOn(domainData, phResult[i].date)
         /\ \A k \in DOMAIN domainData.result :
              domainData.result[k].label \in DOMAIN phResult[i].referringDomains =>
                phResult[i].referringDomains[domainData.result[k].label] =
                  Reported(domainData.result[k], phResult[i].date)

\* The first axis is 2023-12-02, 2023-12-01 in that order; the second event and
\* the domain report counts for both days.
C22_Witness ==
  /\ phPc = "done"
  /\ ~mocked
  /\ Len(trendData.result) = 2
  /\ trendData.result[1].days = <<1, 0>>
  /\ trendData.result[1].data = <<40, 7>>
  /\ trendData.result[2].days = <<0, 1>>
  /\ trendData.result[2].data = <<40, 7>>
  /\ domainStatus = "ok"
  /\ Len(domainData.result) = 1
  /\ domainData.result[1].data = <<3, 4>>
  /\ domainData.result[1].days = <<0, 1>>
  /\ Len(phResult) = 2
  /\ phResult[1].visitors = 7
  /\ phResult[1].pricingViews = 40
  /\ phResult[2].referringDomains["google.com"] = 4

\* The second event and the domain report a count for 2023-12-02, which is not
\* on the first axis.
C22_OffAxisWitness ==
  /\ phPc = "done"
  /\ ~mocked
  /\ Len(trendData.result) = 2
  /\ trendData.result[1].days = <<0>>
  /\ trendData.result[2].days = <<0, 1>>
  /\ trendData.result[2].data = <<40, 7>>
  /\ Len(phResult) = 1

BillingFields == {"mrr", "revenue", "renewalRevenue", "churnRate", "activeCustomers"}

AnalyticsFields == {"visitors", "pricingViews", "checkouts", "referringDomains"}

\* C23: the merged series has the ledger's dates in the ledger's order.  Each
\* record keeps the ledger record's billing fields; its visitors, pricingViews,
\* checkouts and referringDomains are those of the analytics record of the same
\* date, or 0, 0, 0 and the empty map when there is none.  An analytics record
\* whose date the ledger lacks has no record in the output.
C23_MergedFields ==
  mergePc = "merged" =>
    /\ Len(mergedData) = Len(lemonData)
    /\ \A i \in DOMAIN mergedData :
         LET l == lemonData[i]
             m == mergedData[i]
             same == { j \in DOMAIN postHogData : postHogData[j].date = l.date }
         IN  /\ m.date = l.date
             /\ \A f \in BillingFields : m[f] = l[f]
             /\ IF same = {}
                THEN /\ m.visitors = 0
                     /\ m.pricingViews = 0
                     /\ m.checkouts = 0
                     /\ m.referringDomains = NoDomains
                ELSE \E j \in same : \A f \in AnalyticsFields : m[f] = postHogData[j][f]
    /\ \A j \in DOMAIN postHogData :
         (\A i \in DOMAIN lemonData : lemonData[i].date # postHogData[j].date)
           => \A i \in DOMAIN mergedData : mergedData[i].date # postHogData[j].date

\* The ledger covers 2023-12-01 and 2023-12-02 with a paid order; the analytics
\* series covers 2023-12-02 and 2023-12-03.
C23_Witness ==
  /\ mergePc = "merged"
  /\ DatesOf(lemonData) = <<0, 1>>
  /\ DatesOf(postHogData) = <<1, 2>>
  /\ postHogData[1].visitors = 40
  /\ postHogData[1].referringDomains # NoDomains
  /\ postHogData[2].visitors = 40
  /\ \E i \in DOMAIN lemonData : lemonData[i].revenue > 0
  /\ mergedData[1].visitors = 0
  /\ mergedData[2].visitors = 40

\* The Monday on or before day d, and the first day of d's month.
MondayOnOrBefore(d) == d - ((getDay(d) + 6) % 7)

CalendarKey(d, gran) == IF gran = "week" THEN MondayOnOrBefore(d) ELSE MonthStartOf(d)

\* The records of the daily series that went into bucket b.
Members(b) ==
  { i \in DOMAIN data : bucketKey(data[i], granularity) = aggregatedData[b].date }

\* C24: with granularity week each bucket's date is the Monday on or before
\* each of its member days, with granularity month the first day of their
\* month; every day is in a bucket and the bucket dates strictly ascend.
C24_BucketDates ==
  granularity \in {"week", "month"} =>
    /\ \A b \in DOMAIN aggregatedData :
         /\ Members(b) # {}
         /\ \A i \in Members(b) :
              aggregatedData[b].date = CalendarKey(data[i].date, granularity)
    /\ \A i \in DOMAIN data : \E b \in DOMAIN aggregatedData : i \in Members(b)
    /\ \A b \in DOMAIN aggregatedData : \A c \in DOMAIN aggregatedData :
         b < c => aggregatedData[b].date < aggregatedData[c].date

\* The same in a browser whose zone is not west of Greenwich.
C24_HoldsEastOfGreenwich == tzShift = 0 => C24_BucketDates

\* C25: with granularity week or month each bucket's mrr, activeCustomers and
\* churnRate are those of the latest of its member days.
C25_SnapshotOfLastDay ==
  granularity \in {"week", "month"} =>
    \A b \in DOMAIN aggregatedData :
      /\ Members(b) # {}
      /\ LET last == CHOOSE i \in Members(b) : \A j \in Members(b) : j <= i
         IN  /\ aggregatedData[b].mrr = data[last].mrr
             /\ aggregatedData[b].activeCustomers = data[last].activeCustomers
             /\ aggregatedData[b].churnRate = data[last].churnRate

\* A week of one day (Sunday 2023-12-03) with mrr 900 and a week of two days
\* whose first has mrr 900 and whose last has mrr 0.
C25_Witness ==
  /\ granularity = "week"
  /\ tzShift = 0
  /\ DatesOf(data) = <<2, 3, 4>>
  /\ data[1].mrr = 900
  /\ data[2].mrr = 900
  /\ data[3].mrr = 0
  /\ Len(aggregatedData) = 2
  /\ aggregatedData[1].mrr = 900
  /\ aggregatedData[2].mrr = 0

\* C26: computing the buckets leaves every record of the daily series as it
\* was, its referringDomains map included, and the buckets on display are
\* those of that series.
C26_InputUnchanged ==
  [][data' = data /\ aggregatedData' = aggregate(data, granularity')]_vars

\* A month bucket of two days whose map of referring domains differs from the
\* map of the day it was seeded from.
C26_Witness ==
  /\ granularity = "month"
  /\ Len(data) = 2
  /\ Len(aggregatedData) = 1
  /\ data[1].referringDomains = ("google.com" :> 3)
  /\ data[2].referringDomains = ("google.com" :> 1 @@ "direct" :> 4)
  /\ aggregatedData[1].referringDomains = ("google.com" :> 4 @@ "direct" :> 4)

\* C27: whatever pair of field names the custom rate is configured with, the
\* customRate of every record is a number, and it is exactly 0 when the
\* numerator's or the denominator's field is absent from the record or falsy.
C27_CustomRateFinite ==
  \A i \in DOMAIN processedData :
    LET picked == {Field(aggregatedData[i], customConfig.numerator),
                   Field(aggregatedData[i], customConfig.denominator)}
    IN  /\ IsNumber(processedData[i].customRate)
        /\ (\E x \in picked : Falsy(x)) => processedData[i].customRate = Zero

\* The same when both names are among the options of the dialog's selects.
C27_HoldsForDialogOptions ==
  (customConfig.numerator \in metricOptions /\ customConfig.denominator \in metricOptions)
    => C27_CustomRateFinite

\* The request parameters of the render on display: timeRange, viewMode and the
\* two dates, which in simple mode are the calendar days of yesterday and today.
RequestParams ==
  [timeRange |-> timeRange,
   viewMode |-> viewMode,
   dateFrom |-> IF viewMode = "simple" THEN [kind |-> "day", at |-> DayOf(Now) - 1]
                ELSE [kind |-> "instant", at |-> selectedDate.from],
   dateTo |-> IF viewMode = "simple" THEN [kind |-> "day", at |-> DayOf(Now)]
              ELSE [kind |-> "instant", at |-> selectedDate.to]]

\* A step that is an invocation of loadData, a cache hit, a call that resolves.
Invoked == event'.kind \in {"hit", "fetch"} /\ (event' # event \/ pending' # pending)

HitStep == Invoked /\ event'.kind = "hit"

ResolveStep == event'.kind = "resolve" /\ Len(pending') < Len(pending)

\* C28: an invocation of loadData ends with the cached data only if it is not
\* a forced refresh and the stored entry's parameters are the request
\* parameters of that render; a forced refresh always calls getDashboardData;
\* each call is made with the request parameters, and when it resolves the
\* cache entry becomes its data paired with those parameters.
C28_CacheSemantics ==
  [][ /\ HitStep =>
           /\ ~event'.force
           /\ cache.state = "entry"
           /\ cache.params = RequestParams'
           /\ data' = cache.data
           /\ Len(pending') = Len(pending)
           /\ cache' = cache
      /\ (Invoked /\ event'.force) =>
           /\ event'.kind = "fetch"
           /\ Len(pending') = Len(pending) + 1
      /\ (Invoked /\ event'.kind = "fetch") =>
           /\ Len(pending') = Len(pending) + 1
           /\ pending'[Len(pending')].params = RequestParams'
           /\ cache' = cache
           /\ data' = data
      /\ ResolveStep =>
           /\ \E i \in DOMAIN pending : pending[i] = event'.req
           /\ cache' = [state |-> "entry", params |-> event'.req.params, data |-> data']
    ]_vars

\* The page opens in simple mode on an entry stored today, and shows its data.
C28_Witness ==
  /\ event.kind = "hit"
  /\ ~event.force
  /\ viewMode = "simple"
  /\ cache.params.dateTo = [kind |-> "day", at |-> DayOf(Now)]
  /\ data = cache.data
  /\ data # <<>>
  /\ ~loading

\* Refresh is pressed while the stored entry matches: the call is made.
C28_ForcedWitness ==
  /\ event.kind = "fetch"
  /\ event.force
  /\ cache.state = "entry"
  /\ cache.params = event.params

\* An entry stored yesterday in simple mode is not served today.
C28_StaleWitness ==
  /\ event.kind = "fetch"
  /\ ~event.force
  /\ phase = "mounted"
  /\ viewMode = "simple"
  /\ cache.state = "entry"
  /\ cache.params.viewMode = "simple"
  /\ cache.params.dateTo = [kind |-> "day", at |-> DayOf(Now) - 1]

C30_LatestWins ==
  /\ (phase = "mounted" /\ pending = <<>> /\ latest.end \in {"hit", "resolved"}) =>
       /\ data = latest.data
       /\ cache = [state |-> "entry", params |-> latest.params, data |-> latest.data]
  /\ ~loading => pending = <<>>

\* The two parts of C30 on their own.
C30_DataOfLatest ==
  (phase = "mounted" /\ pending = <<>> /\ latest.end \in {"hit", "resolved"}) =>
    /\ data = latest.data
    /\ cache = [state |-> "entry", params |-> latest.params, data |-> latest.data]

C30_LoadingWhilePending == ~loading => pending = <<>>

\* When the latest invocation found nothing pending, and nothing has been
\* invoked since, the data and the cache entry are its own.
C30_HoldsWithoutOverlap ==
  (event.kind = "resolve" /\ event.req.newest /\ pending = <<>>) =>
    (C30_DataOfLatest /\ C30_LoadingWhilePending)

====
